---- MODULE Spec2Model ----
(***************************************************************************)
(* A model of odutil (src/odutil/analysis.py, src/parser.py): the folder   *)
(* matcher, the single-file label generator, the distribution analyzer and *)
(* the three batch calls that map a function over a directory listing with *)
(* a multiprocessing.Pool.                                                 *)
(*                                                                         *)
(* File names are sequences of one-character strings, so that splitext is  *)
(* computed and not assumed.  A number read from an annotation is kept as  *)
(* the count of halves its text denotes ("1.5" is 3), so that              *)
(* int(float(text)) is a real truncation.  A Python float produced by the  *)
(* true division p/q is kept as the exact fraction <<p, q>>; rounding to   *)
(* the nearest double is monotone and 0.0 and 1.0 are doubles, so an       *)
(* order comparison with 0 or 1 has the same answer on the fraction.       *)
(***************************************************************************)
EXTENDS Integers, Sequences, FiniteSets, TLC

VARIABLES
    \* check_match
    name_1, name_2, match_pc, match_ret,
    \* gen_label, one call
    names_file, xml, name2label, row, out_file, gl_outcome,
    \* distribution
    annos, verbose, d, dist_outcome,
    \* the batch calls
    call, listing, cpu, pool, pc, taskqueue, task, mapres, outdir, files, ret

match_vars == <<name_1, name_2, match_pc, match_ret>>
label_vars == <<names_file, xml, name2label, row, out_file, gl_outcome>>
dist_vars  == <<annos, verbose, d, dist_outcome>>
batch_vars == <<call, listing, cpu, pool, pc, taskqueue, task, mapres, outdir, files, ret>>
vars == <<match_vars, label_vars, dist_vars, batch_vars>>

\* Python's None: the outcome of a call that has not ended, the value
\* gen_label returns.
None == "None"

(***************************************************************************)
(* Bounds of the model.                                                    *)
(***************************************************************************)
\* Most entries in one directory listing given to check_match.
MaxEntries == 2
\* Most lines of a names file.
MaxLines == 3
\* Largest number text of an annotation, in halves (5 is the text "2.5").
MaxHalves == 5
\* Most object elements of one annotation.
MaxObj == 3
\* Most entries of an annotation folder given to a batch call or to distribution.
MaxFiles == 3
\* Largest cpu_count() of the host.
MaxCpu == 3

(***************************************************************************)
(* Helpers on sequences.                                                   *)
(***************************************************************************)
Range(s) == {s[i] : i \in 1..Len(s)}

\* All sequences over S of length at most n.
SeqUpTo(S, n) == UNION {[1..k -> S] : k \in 0..n}

\* m with key k bound to v only when k is not a key yet (a setdefault).
Put_setdefault(m, k, v) == [x \in DOMAIN m \cup {k} |-> IF x \in DOMAIN m THEN m[x] ELSE v]

\* m with key k bound to v: the dict assignment m[k] = v.
Put(m, k, v) == [x \in DOMAIN m \cup {k} |-> IF x = k THEN v ELSE m[x]]

(***************************************************************************)
(* os.path.splitext on a name without a directory separator: the extension *)
(* starts at the last dot, unless only dots precede that dot.              *)
(***************************************************************************)
\* p.rfind('.'), 1-based; 0 when there is no dot.
LastDot(p) ==
    LET dots == {i \in 1..Len(p) : p[i] = "."}
    IN  IF dots = {} THEN 0 ELSE CHOOSE i \in dots : \A j \in dots : j <= i

splitext(p) ==
    LET dot == LastDot(p)
    IN  IF dot > 0 /\ \E i \in 1..(dot - 1) : p[i] # "."
        THEN <<SubSeq(p, 1, dot - 1), SubSeq(p, dot, Len(p))>>
        ELSE <<p, <<>>>>

(***************************************************************************)
(* check_match(path_1, path_2).  os.listdir returns each entry once, in    *)
(* arbitrary order; the function only takes the length of a listing and    *)
(* iterates it, so a listing is modelled as the set of its entries.        *)
(***************************************************************************)
\* The entries a directory given to check_match may hold.
MatchNames ==
    { <<"1", ".", "x", "m", "l">>, <<"2", ".", "x", "m", "l">>,
      <<"1", ".", "j", "p", "g">>, <<"2", ".", "j", "p", "g">>,
      <<"3", ".", "j", "p", "g">>, <<"1", ".", "p", "n", "g">>,
      <<".", "x", "m", "l">> }

Listings == {l \in SUBSET MatchNames : Cardinality(l) <= MaxEntries}

check_match(n1, n2) ==
    IF Cardinality(n1) # Cardinality(n2)
    THEN FALSE
    ELSE LET set_name == {splitext(name)[1] : name \in n1}
         IN  \A name \in n2 : splitext(name)[1] \in set_name

MatchIdle == name_1 = {} /\ name_2 = {} /\ match_pc = "idle" /\ match_ret = FALSE

\* match_ret is meaningful once match_pc is "done".
MatchInit ==
    /\ name_1 \in Listings
    /\ name_2 \in Listings
    /\ match_pc = "call"
    /\ match_ret = FALSE

CheckMatch ==
    /\ match_pc = "call"
    /\ match_pc' = "done"
    /\ match_ret' = check_match(name_1, name_2)
    /\ UNCHANGED <<name_1, name_2, label_vars, dist_vars, batch_vars>>

(***************************************************************************)
(* parse_anno(path_anno) of analysis.py.  An annotation document is        *)
(*   [size |-> [width, height], object |-> <<[name, xmin, ymin, xmax,      *)
(*   ymax], ...>>]                                                         *)
(* with every number given as the text of the file (in halves); the parsed *)
(* record has the same shape with integers.  The filename, annoname and    *)
(* depth fields are read by no function of the module and are left out.    *)
(***************************************************************************)
\* int(float(text)): truncation toward zero.
IntFloat(t) == IF t >= 0 THEN t \div 2 ELSE -((-t) \div 2)

parse_anno(doc) ==
    [size   |-> [width  |-> IntFloat(doc.size.width),
                 height |-> IntFloat(doc.size.height)],
     object |-> [i \in 1..Len(doc.object) |->
                    [name |-> doc.object[i].name,
                     xmin |-> IntFloat(doc.object[i].xmin),
                     ymin |-> IntFloat(doc.object[i].ymin),
                     xmax |-> IntFloat(doc.object[i].xmax),
                     ymax |-> IntFloat(doc.object[i].ymax)]]]

(***************************************************************************)
(* gen_label(path_anno, path_names, path_out): the mapping, the rows.      *)
(***************************************************************************)
ClassNames == {"cat", "dog", "bird"}

\* The loop over the lines of the names file, with its running counter label;
\* lines are held stripped of their newline.
RECURSIVE BuildName2Label(_, _, _)
BuildName2Label(lines, label, m) ==
    IF label >= Len(lines)
    THEN m
    ELSE BuildName2Label(lines, label + 1, Put(m, lines[label + 1], label))

\* One output line before ' '.join(map(str, ...)): the label and four floats.
Line_nohalf(label, bbox, W, H) ==
    << label,
       <<bbox.xmin + bbox.xmax, W>>,
       <<bbox.ymin + bbox.ymax, H>>,
       <<bbox.xmax - bbox.xmin, W>>,
       <<bbox.ymax - bbox.ymin, H>> >>

Line(label, bbox, W, H) ==
    << label,
       <<bbox.xmin + bbox.xmax, 2 * W>>,
       <<bbox.ymin + bbox.ymax, 2 * H>>,
       <<bbox.xmax - bbox.xmin, W>>,
       <<bbox.ymax - bbox.ymin, H>> >>

ZeroDivisionError == "ZeroDivisionError"

\* The loop over anno['object'] that stops at the first unknown class.
RECURSIVE Rows_break(_, _, _, _)
Rows_break(anno, m, i, acc) ==
    IF i > Len(anno.object)
    THEN [err |-> FALSE, rows |-> acc]
    ELSE LET bbox == anno.object[i]
             W == anno.size.width
             H == anno.size.height
         IN  IF bbox.name \notin DOMAIN m
             THEN [err |-> FALSE, rows |-> acc]
             ELSE IF W = 0 \/ H = 0
                  THEN [err |-> TRUE, rows |-> acc]
                  ELSE Rows_break(anno, m, i + 1,
                                  Append(acc, Line(m[bbox.name], bbox, W, H)))

\* The loop over anno['object']: the rows, or err at the first division by a
\* zero width or height (rows then holds what the loop had appended).
RECURSIVE Rows(_, _, _, _)
Rows(anno, m, i, acc) ==
    IF i > Len(anno.object)
    THEN [err |-> FALSE, rows |-> acc]
    ELSE LET bbox == anno.object[i]
             W == anno.size.width
             H == anno.size.height
         IN  IF bbox.name \notin DOMAIN m
             THEN Rows(anno, m, i + 1, acc)
             ELSE IF W = 0 \/ H = 0
                  THEN [err |-> TRUE, rows |-> acc]
                  ELSE Rows(anno, m, i + 1,
                            Append(acc, Line(m[bbox.name], bbox, W, H)))

Doc(w, h, objs) == [size |-> [width |-> w, height |-> h], object |-> objs]

Box(n, x1, y1, x2, y2) == [name |-> n, xmin |-> x1, ymin |-> y1, xmax |-> x2, ymax |-> y2]

\* Before the call: no mapping, no row, nothing written.
LabelFresh == name2label = <<>> /\ row = <<>> /\ out_file = <<>> /\ gl_outcome = None

LabelIdle == names_file = <<>> /\ xml = Doc(0, 0, <<>>) /\ LabelFresh

\* The whole of one gen_label call into an existing output directory: out_file
\* is the sequence of lines that '\n'.join(row) writes.
GenLabel ==
    /\ gl_outcome = None
    /\ LET anno == parse_anno(xml)
           m == BuildName2Label(names_file, 0, <<>>)
           r == Rows(anno, m, 1, <<>>)
       IN  /\ name2label' = m
           /\ row' = r.rows
           /\ IF r.err
              THEN gl_outcome' = ZeroDivisionError /\ UNCHANGED out_file
              ELSE gl_outcome' = "ok" /\ out_file' = r.rows
    /\ UNCHANGED <<names_file, xml, match_vars, dist_vars, batch_vars>>

\* Names files of every content, over two fixed annotations.
NamesInit ==
    /\ names_file \in SeqUpTo(ClassNames, MaxLines)
    /\ xml \in {Doc(8, 8, <<>>), Doc(8, 8, <<Box("cat", 0, 0, 4, 4), Box("bird", 2, 2, 6, 8)>>)}
    /\ LabelFresh

\* One box of a known class with every size and coordinate text.
GeomInit ==
    /\ names_file = <<"cat", "dog">>
    /\ \E w, h, x1, y1, x2, y2 \in 0..MaxHalves :
           xml = Doc(w, h, <<Box("dog", x1, y1, x2, y2)>>)
    /\ LabelFresh

\* Every names file against every sequence of boxes of known and unknown
\* classes, in images with and without a zero side.
RowsInit ==
    /\ names_file \in SeqUpTo(ClassNames, MaxLines)
    /\ \E wh \in {<<8, 8>>, <<1, 8>>, <<8, 0>>} :
       \E ns \in SeqUpTo(ClassNames, MaxObj) :
           xml = Doc(wh[1], wh[2], [i \in 1..Len(ns) |-> Box(ns[i], 2 * i, 3, 7, 8)])
    /\ LabelFresh

(***************************************************************************)
(* distribution(path_anno_folder, verbose).  annos holds the documents of  *)
(* the folder in the order parse_annos returns them; all of them parse.    *)
(***************************************************************************)
\* The class names of the annotations given to distribution.
DistNames == {"cat", "dog", "N"}

\* d[obj['name']] = d.setdefault(obj['name'], 0) + 1, then d['N'] += 1, for
\* the objects of one annotation from the i-th on.
RECURSIVE CountObjs(_, _, _)
CountObjs(objs, i, dd) ==
    IF i > Len(objs)
    THEN dd
    ELSE LET name == objs[i].name
             d1 == Put(dd, name, (IF name \in DOMAIN dd THEN dd[name] ELSE 0) + 1)
             d2 == Put(d1, "N", d1["N"] + 1)
         IN  CountObjs(objs, i + 1, d2)

\* The loop over annos from the k-th annotation on.
RECURSIVE CountAnnos(_, _, _)
CountAnnos(as, k, dd) ==
    IF k > Len(as)
    THEN dd
    ELSE CountAnnos(as, k + 1, CountObjs(parse_anno(as[k]).object, 1, dd))

\* The report loop divides by d['N'] for every key of d, 'N' itself included.
ReportRaises(dd) == \E name \in DOMAIN dd : dd["N"] = 0

\* The dict built, and how the call ends.
distribution(as, v) ==
    LET dd == CountAnnos(as, 1, [k \in {"N"} |-> 0])
    IN  [d       |-> dd,
         outcome |-> IF v = 1 /\ ReportRaises(dd) THEN ZeroDivisionError ELSE "returned"]

DistIdle == annos = <<>> /\ verbose = 0 /\ d = <<>> /\ dist_outcome = "idle"

DistDocs == {Doc(8, 8, [i \in 1..Len(ns) |-> Box(ns[i], 2, 2, 6, 6)]) : ns \in SeqUpTo(DistNames, MaxObj)}

DistInit ==
    /\ annos \in SeqUpTo(DistDocs, MaxFiles)
    /\ verbose \in {0, 1}
    /\ d = <<>>
    /\ dist_outcome = None

Distribution ==
    /\ dist_outcome = None
    /\ d' = distribution(annos, verbose).d
    /\ dist_outcome' = distribution(annos, verbose).outcome
    /\ UNCHANGED <<annos, verbose, match_vars, label_vars, batch_vars>>

(***************************************************************************)
(* The batch calls: parse_annos of analysis.py, parse_annos of parser.py   *)
(* and gen_labels.  Each creates Pool(cpu_count()) and maps a function     *)
(* over the directory listing.  Pool.map cuts the listing into chunks of   *)
(* ceil(n / (4 * cpu)) entries, which is one entry per chunk for every     *)
(* n <= 4 * cpu, so a task is one entry.  Worker processes are             *)
(* interchangeable: what is kept is each task's position, and at most cpu  *)
(* tasks are in progress at a time.  The MapResult of the call (mapres)    *)
(* keeps the first failure, counts the tasks left and is ready once none   *)
(* is left.                                                                *)
(***************************************************************************)
A_XML == <<"a", ".", "x", "m", "l">>
A_BAK == <<"a", ".", "b", "a", "k">>
B_XML == <<"b", ".", "x", "m", "l">>
Z_XML == <<"z", ".", "x", "m", "l">>
M_XML == <<"m", ".", "x", "m", "l">>

\* The entries an annotation folder may hold.  a.xml and a.bak share their
\* basename, b.xml has a box of a class the names file does not list, z.xml
\* declares a zero width, m.xml is not well-formed XML.
Folder == {A_XML, A_BAK, B_XML, Z_XML, M_XML}

Malformed(entry) == entry = M_XML

FolderDoc(entry) ==
    CASE entry = A_XML -> Doc(8, 8, <<Box("cat", 2, 2, 6, 6)>>)
      [] entry = A_BAK -> Doc(8, 8, <<Box("dog", 0, 0, 8, 8), Box("cat", 3, 4, 7, 8)>>)
      [] entry = B_XML -> Doc(9, 8, <<Box("bird", 0, 0, 2, 2), Box("dog", 1, 3, 5, 7)>>)
      [] entry = Z_XML -> Doc(0, 8, <<Box("cat", 0, 0, 0, 4)>>)
      [] OTHER -> Doc(0, 0, <<>>)

\* The names file every gen_label of a gen_labels call reads.
BatchNames == <<"cat", "dog">>

\* parse_anno of parser.py keeps the text of every number.
parser_parse_anno(doc) == [size |-> doc.size, object |-> doc.object]

\* What the mapped parse_anno returns for an entry that parses.
ParseOf(c, entry) ==
    IF c = "parser.parse_annos"
    THEN parser_parse_anno(FolderDoc(entry))
    ELSE parse_anno(FolderDoc(entry))

\* The rows gen_label computes for an entry, before it touches path_out.
LabelRows(entry) ==
    Rows(parse_anno(FolderDoc(entry)), BuildName2Label(BatchNames, 0, <<>>), 1, <<>>)

TXT == <<".", "t", "x", "t">>

\* The output file name with the extension of the annotation kept.
OutFileName_keepext(entry) == entry \o TXT

\* '{}.txt'.format(os.path.splitext(os.path.basename(path_anno))[0])
OutFileName(entry) == splitext(entry)[1] \o TXT

\* A write of data at offset 0 of a file that holds old: open(.., 'w') has
\* truncated the file, and another process may have written since.
Overlay(data, old) == data \o SubSeq(old, Len(data) + 1, Len(old))

\* os.listdir: the entries of the folder, each once, in arbitrary order.
FolderListings ==
    {l \in SeqUpTo(Folder, MaxFiles) : \A i, j \in 1..Len(l) : i # j => l[i] # l[j]}

Calls == {"analysis.parse_annos", "parser.parse_annos", "gen_labels"}

InProgress == {i \in DOMAIN task : task[i] \in {"isdir", "mkdir", "open", "write"}}

\* MapResult._set(i, (success, result)).
MapSet(mr, i, success, status, value) ==
    [success     |-> mr.success /\ success,
     error       |-> IF ~success /\ mr.success THEN status ELSE mr.error,
     status      |-> [mr.status EXCEPT ![i] = status],
     value       |-> [mr.value EXCEPT ![i] = value],
     number_left |-> mr.number_left - 1]

\* A result that hands back every value that did arrive, failures skipped.
MapGet_partial(mr) ==
    [ok    |-> TRUE,
     value |-> LET done == SelectSeq([i \in 1..Len(mr.value) |-> i],
                                     LAMBDA i : mr.status[i] = "ok")
               IN  [k \in 1..Len(done) |-> mr.value[done[k]][1]]]

\* MapResult.get() once ready: the list of values, or the first failure raised.
MapGet(mr) ==
    [ok    |-> mr.success,
     value |-> IF mr.success THEN [i \in 1..Len(mr.value) |-> mr.value[i][1]] ELSE <<>>]

BatchIdle ==
    /\ call = "idle"
    /\ listing = <<>>
    /\ cpu = 1
    /\ pool = "none"
    /\ pc = "idle"
    /\ taskqueue = <<>>
    /\ task = <<>>
    /\ mapres = [success |-> TRUE, error |-> "", status |-> <<>>, value |-> <<>>, number_left |-> 0]
    /\ outdir = FALSE
    /\ files = <<>>
    /\ ret = <<>>

BatchInit ==
    /\ call \in Calls
    /\ listing \in FolderListings
    /\ cpu \in 1..MaxCpu
    /\ pool = "none"
    /\ pc = "start"
    /\ taskqueue = <<>>
    /\ task = <<>>
    /\ mapres = [success |-> TRUE, error |-> "", status |-> <<>>, value |-> <<>>, number_left |-> 0]
    /\ outdir \in (IF call = "gen_labels" THEN BOOLEAN ELSE {FALSE})
    /\ files = <<>>
    /\ ret = <<>>

\* The listing is taken, the pool created, every entry queued as a task.
Call ==
    /\ pc = "start"
    /\ pc' = "map"
    /\ pool' = "run"
    /\ taskqueue' = [i \in 1..Len(listing) |-> i]
    /\ task' = [i \in 1..Len(listing) |-> "queued"]
    /\ mapres' = [success     |-> TRUE,
                  error       |-> "",
                  status      |-> [i \in 1..Len(listing) |-> ""],
                  value       |-> [i \in 1..Len(listing) |-> <<>>],
                  number_left |-> Len(listing)]
    /\ UNCHANGED <<call, listing, cpu, outdir, files, ret>>
    /\ UNCHANGED <<match_vars, label_vars, dist_vars>>

\* A free worker takes the next task of a parse_annos call and runs parse_anno.
Parse ==
    /\ pc = "map"
    /\ call \in {"analysis.parse_annos", "parser.parse_annos"}
    /\ taskqueue # <<>>
    /\ Cardinality(InProgress) < cpu
    /\ LET i == Head(taskqueue)
       IN  /\ taskqueue' = Tail(taskqueue)
           /\ task' = [task EXCEPT ![i] = "done"]
           /\ mapres' = IF Malformed(listing[i])
                        THEN MapSet(mapres, i, FALSE, "ParseError", <<>>)
                        ELSE MapSet(mapres, i, TRUE, "ok", <<ParseOf(call, listing[i])>>)
    /\ UNCHANGED <<call, listing, cpu, pool, pc, outdir, files, ret>>
    /\ UNCHANGED <<match_vars, label_vars, dist_vars>>

\* A free worker takes the next task of a gen_labels call and runs gen_label
\* up to its os.path.isdir test: the parse, the mapping, the rows.
GenLabelRows ==
    /\ pc = "map"
    /\ call = "gen_labels"
    /\ taskqueue # <<>>
    /\ Cardinality(InProgress) < cpu
    /\ LET i == Head(taskqueue)
       IN  /\ taskqueue' = Tail(taskqueue)
           /\ IF Malformed(listing[i])
              THEN /\ task' = [task EXCEPT ![i] = "done"]
                   /\ mapres' = MapSet(mapres, i, FALSE, "ParseError", <<>>)
              ELSE IF LabelRows(listing[i]).err
                   THEN /\ task' = [task EXCEPT ![i] = "done"]
                        /\ mapres' = MapSet(mapres, i, FALSE, ZeroDivisionError, <<>>)
                   ELSE /\ task' = [task EXCEPT ![i] = "isdir"]
                        /\ UNCHANGED mapres
    /\ UNCHANGED <<call, listing, cpu, pool, pc, outdir, files, ret>>
    /\ UNCHANGED <<match_vars, label_vars, dist_vars>>

\* if not os.path.isdir(path_out)
IsDir(i) ==
    /\ task[i] = "isdir"
    /\ task' = [task EXCEPT ![i] = IF outdir THEN "open" ELSE "mkdir"]
    /\ UNCHANGED <<call, listing, cpu, pool, pc, taskqueue, mapres, outdir, files, ret>>
    /\ UNCHANGED <<match_vars, label_vars, dist_vars>>

\* os.mkdir(path_out): FileExistsError when the directory is there by now.
Mkdir(i) ==
    /\ task[i] = "mkdir"
    /\ IF outdir
       THEN /\ task' = [task EXCEPT ![i] = "done"]
            /\ mapres' = MapSet(mapres, i, FALSE, "FileExistsError", <<>>)
            /\ UNCHANGED outdir
       ELSE /\ task' = [task EXCEPT ![i] = "open"]
            /\ outdir' = TRUE
            /\ UNCHANGED mapres
    /\ UNCHANGED <<call, listing, cpu, pool, pc, taskqueue, files, ret>>
    /\ UNCHANGED <<match_vars, label_vars, dist_vars>>

\* open(path_out_file, 'w'): the file is created or truncated.
Open(i) ==
    /\ task[i] = "open"
    /\ task' = [task EXCEPT ![i] = "write"]
    /\ files' = Put(files, OutFileName(listing[i]), <<>>)
    /\ UNCHANGED <<call, listing, cpu, pool, pc, taskqueue, mapres, outdir, ret>>
    /\ UNCHANGED <<match_vars, label_vars, dist_vars>>

\* f.write('\n'.join(row)) and the close of the with block: the buffered text
\* goes to the file in one write; gen_label returns None.
Write(i) ==
    /\ task[i] = "write"
    /\ task' = [task EXCEPT ![i] = "done"]
    /\ files' = Put(files, OutFileName(listing[i]),
                    Overlay(LabelRows(listing[i]).rows, files[OutFileName(listing[i])]))
    /\ mapres' = MapSet(mapres, i, TRUE, "ok", <<None>>)
    /\ UNCHANGED <<call, listing, cpu, pool, pc, taskqueue, outdir, ret>>
    /\ UNCHANGED <<match_vars, label_vars, dist_vars>>

\* The map is ready with every task a success: analysis.py closes and joins
\* the pool and returns; parser.py returns with the pool as it is.
Return ==
    /\ pc = "map"
    /\ mapres.number_left = 0
    /\ MapGet(mapres).ok
    /\ pc' = "returned"
    /\ pool' = IF call = "parser.parse_annos" THEN pool ELSE "joined"
    /\ ret' = IF call = "gen_labels" THEN <<>> ELSE MapGet(mapres).value
    /\ UNCHANGED <<call, listing, cpu, taskqueue, task, mapres, outdir, files>>
    /\ UNCHANGED <<match_vars, label_vars, dist_vars>>

\* The map is ready with a failure: map raises it, and the statements after
\* the map are not run.
Raise ==
    /\ pc = "map"
    /\ mapres.number_left = 0
    /\ ~MapGet(mapres).ok
    /\ pc' = "raised"
    /\ UNCHANGED <<call, listing, cpu, pool, taskqueue, task, mapres, outdir, files, ret>>
    /\ UNCHANGED <<match_vars, label_vars, dist_vars>>

(***************************************************************************)
(* Specifications.                                                         *)
(***************************************************************************)
Init == MatchIdle /\ LabelIdle /\ DistIdle /\ BatchInit

Next ==
    \/ Call
    \/ Parse
    \/ GenLabelRows
    \/ \E i \in DOMAIN task : IsDir(i)
    \/ \E i \in DOMAIN task : Mkdir(i)
    \/ \E i \in DOMAIN task : Open(i)
    \/ \E i \in DOMAIN task : Write(i)
    \/ Return
    \/ Raise

\* The batch calls.
Spec == Init /\ [][Next]_vars

\* check_match on every pair of listings.
InitMatch == MatchInit /\ LabelIdle /\ DistIdle /\ BatchIdle

SpecMatch == InitMatch /\ [][CheckMatch]_vars

\* gen_label on every names file.
InitNames == MatchIdle /\ NamesInit /\ DistIdle /\ BatchIdle

SpecNames == InitNames /\ [][GenLabel]_vars

\* gen_label on every box geometry.
InitGeom == MatchIdle /\ GeomInit /\ DistIdle /\ BatchIdle

SpecGeom == InitGeom /\ [][GenLabel]_vars

\* gen_label on every sequence of boxes.
InitRows == MatchIdle /\ RowsInit /\ DistIdle /\ BatchIdle

SpecRows == InitRows /\ [][GenLabel]_vars

\* distribution on every folder.
InitDist == MatchIdle /\ LabelIdle /\ DistInit /\ BatchIdle

SpecDist == InitDist /\ [][Distribution]_vars

(***************************************************************************)
(* Properties.                                                             *)
(***************************************************************************)
Stems(names) == {splitext(name)[1] : name \in names}

\* C1: check_match returns true exactly when the two listings have the same
\* number of entries and the same set of names with the extension stripped.
MatchIffSameStems ==
    match_pc = "done" =>
        (match_ret <=> (/\ Cardinality(name_1) = Cardinality(name_2)
                        /\ Stems(name_1) = Stems(name_2)))

\* The lines of the names file that carry name n, counted from 0.
LinesOf(n) == {i \in 0..(Len(names_file) - 1) : names_file[i + 1] = n}

Indices == {name2label[n] : n \in DOMAIN name2label}

NoRepeatedName ==
    \A i, j \in 1..Len(names_file) : i # j => names_file[i] # names_file[j]

\* C4 as claimed: the name on line i gets index i, and the indices of the
\* mapping are exactly 0 .. k-1 for its k names, whatever the names file.
Name2LabelLineOrder ==
    gl_outcome # None =>
        /\ \A i \in 0..(Len(names_file) - 1) : name2label[names_file[i + 1]] = i
        /\ Indices = 0..(Cardinality(DOMAIN name2label) - 1)

\* C4 as amended: the mapping holds the names of the file, each with the
\* index of the last line that carries it; when no name is repeated that is
\* line i to index i, and the indices are exactly 0 .. k-1.
Name2LabelLastLine ==
    gl_outcome # None =>
        /\ DOMAIN name2label = Range(names_file)
        /\ \A n \in DOMAIN name2label :
               /\ name2label[n] \in LinesOf(n)
               /\ \A i \in LinesOf(n) : i <= name2label[n]
        /\ NoRepeatedName =>
               /\ \A i \in 0..(Len(names_file) - 1) : name2label[names_file[i + 1]] = i
               /\ Indices = 0..(Cardinality(DOMAIN name2label) - 1)

\* A names file with a repeated name has gone through gen_label.
RepeatedNameMapped ==
    /\ gl_outcome = "ok"
    /\ names_file = <<"cat", "dog", "cat">>
    /\ name2label["cat"] = 2

\* The one box of the annotation, parsed, and the image size.
TheBox == parse_anno(xml).object[1]
ImageW == parse_anno(xml).size.width
ImageH == parse_anno(xml).size.height

\* The box lies inside an image of positive size and its line was emitted.
BoxInBounds ==
    /\ gl_outcome = "ok"
    /\ Len(out_file) = 1
    /\ ImageW > 0 /\ ImageH > 0
    /\ 0 <= TheBox.xmin /\ TheBox.xmin <= ImageW
    /\ 0 <= TheBox.xmax /\ TheBox.xmax <= ImageW
    /\ 0 <= TheBox.ymin /\ TheBox.ymin <= ImageH
    /\ 0 <= TheBox.ymax /\ TheBox.ymax <= ImageH

\* The fraction f = <<p, q>> with q > 0 lies in [0, 1]; in [-1, 1].
InUnit(f) == f[2] > 0 /\ 0 <= f[1] /\ f[1] <= f[2]
InSignedUnit(f) == f[2] > 0 /\ -f[2] <= f[1] /\ f[1] <= f[2]

\* C5 as claimed: the four values emitted for a box inside the image bounds
\* are each in [0, 1], whatever the order of xmin, xmax and of ymin, ymax.
LineValuesInUnit ==
    BoxInBounds => \A k \in 2..5 : InUnit(out_file[1][k])

\* C5 as amended: for a box inside the image bounds the two centers are in
\* [0, 1] and the width and height are in [-1, 1]; the width is in [0, 1]
\* exactly when xmin <= xmax, the height exactly when ymin <= ymax.
LineValuesBounded ==
    BoxInBounds =>
        /\ InUnit(out_file[1][2])
        /\ InUnit(out_file[1][3])
        /\ InSignedUnit(out_file[1][4])
        /\ InSignedUnit(out_file[1][5])
        /\ InUnit(out_file[1][4]) <=> TheBox.xmin <= TheBox.xmax
        /\ InUnit(out_file[1][5]) <=> TheBox.ymin <= TheBox.ymax

\* A box inside the bounds with xmin > xmax, read from a text with a
\* fraction, has had its line emitted.
ReversedBoxEmitted ==
    /\ BoxInBounds
    /\ TheBox.xmin > TheBox.xmax
    /\ xml.object[1].xmin = 5
    /\ TheBox.xmin = 2

\* The boxes of the annotation whose class is a line of the names file.
Qualifying ==
    SelectSeq(parse_anno(xml).object, LAMBDA b : b.name \in Range(names_file))

\* C6: gen_label writes one line per box of a class in the mapping, in
\* document order, each starting with the index of its class; a box of an
\* unknown class gives no line and no error (the only error is the division
\* by a zero width or height for a box of a known class), and with no
\* qualifying box the file written is empty.
RowsOfKnownClasses ==
    /\ gl_outcome = "ok" =>
           /\ Len(out_file) = Len(Qualifying)
           /\ \A k \in 1..Len(out_file) :
                  /\ out_file[k][1] = name2label[Qualifying[k].name]
                  /\ out_file[k] = Line(out_file[k][1], Qualifying[k],
                                        parse_anno(xml).size.width,
                                        parse_anno(xml).size.height)
    /\ gl_outcome = ZeroDivisionError =>
           /\ Qualifying # <<>>
           /\ parse_anno(xml).size.width = 0 \/ parse_anno(xml).size.height = 0
    /\ (gl_outcome # None /\ Qualifying = <<>>) =>
           gl_outcome = "ok" /\ out_file = <<>>

\* An annotation with a known, an unknown and again a known class has been
\* written as two lines.
MixedClassesWritten ==
    /\ gl_outcome = "ok"
    /\ names_file = <<"dog", "cat">>
    /\ Len(xml.object) = 3
    /\ xml.object[1].name = "cat"
    /\ xml.object[2].name = "bird"
    /\ xml.object[3].name = "dog"
    /\ Len(out_file) = 2
    /\ out_file[1][1] = 1
    /\ out_file[2][1] = 0

\* The number of boxes named n in the folder given to distribution.
RECURSIVE BoxCount(_, _)
BoxCount(n, k) ==
    IF k = 0
    THEN 0
    ELSE BoxCount(n, k - 1)
         + Cardinality({i \in 1..Len(annos[k].object) : annos[k].object[i].name = n})

RECURSIVE TotalBoxes(_)
TotalBoxes(k) == IF k = 0 THEN 0 ELSE TotalBoxes(k - 1) + Len(annos[k].object)

\* C3: the result of distribution maps each class name to the number of
\* boxes with that name, and its 'N' is the total number of boxes, also when
\* a class is named 'N'.
DistributionCounts ==
    dist_outcome = "returned" =>
        /\ \A n \in DistNames :
               BoxCount(n, Len(annos)) > 0 =>
                   n \in DOMAIN d /\ d[n] = BoxCount(n, Len(annos))
        /\ d["N"] = TotalBoxes(Len(annos))

\* C10: with verbose set, distribution ends as it does with verbose unset
\* and with the same mapping.
VerboseSameOutcome ==
    dist_outcome # None =>
        /\ dist_outcome = distribution(annos, 0).outcome
        /\ d = distribution(annos, 0).d

Ended == pc \in {"returned", "raised"}

\* C2: in a gen_labels call no gen_label fails on the creation of the output
\* directory, whichever worker creates it first.
NoMkdirFailure ==
    call = "gen_labels" =>
        \A i \in DOMAIN task : mapres.status[i] # "FileExistsError"

\* C7: parse_annos ends either by returning one record per directory entry,
\* in the order of the listing, every entry having parsed, or by raising with
\* nothing returned, some entry having failed to parse; on an empty
\* directory it returns the empty sequence.
ParseAllOrNothing ==
    call \in {"analysis.parse_annos", "parser.parse_annos"} =>
        /\ pc = "returned" =>
               /\ Len(ret) = Len(listing)
               /\ \A i \in 1..Len(listing) :
                      ~Malformed(listing[i]) /\ ret[i] = ParseOf(call, listing[i])
        /\ pc = "raised" =>
               /\ ret = <<>>
               /\ \E i \in 1..Len(listing) : Malformed(listing[i])
        /\ (Ended /\ listing = <<>>) => pc = "returned"

\* parse_annos of analysis.py has raised over a folder of two entries of
\* which one had parsed.
ParsedEntryDiscarded ==
    /\ call = "analysis.parse_annos"
    /\ pc = "raised"
    /\ Len(listing) = 2
    /\ \E i \in 1..2 : mapres.status[i] = "ok"

\* C8: when a batch call has ended, by a return or by an error, its pool is
\* closed and its workers are joined.
PoolJoinedAtExit == Ended => pool = "joined"

\* The names of the label files '<basename>.txt' of the entries of the listing.
LabelFileNames == {splitext(listing[i])[1] \o TXT : i \in 1..Len(listing)}

\* C9 as claimed: after gen_labels has returned over n entries the output
\* directory holds n label files, each with the lines of its entry.
OneLabelFilePerEntry ==
    (call = "gen_labels" /\ pc = "returned") =>
        /\ Cardinality(DOMAIN files) = Len(listing)
        /\ \A i \in 1..Len(listing) :
               files[splitext(listing[i])[1] \o TXT] = LabelRows(listing[i]).rows

\* No other entry of the listing has the basename of entry i.
OnlyBasename(i) ==
    \A j \in 1..Len(listing) : j # i => splitext(listing[j])[1] # splitext(listing[i])[1]

\* C9 as amended: after gen_labels has returned, the output directory holds
\* one label file per distinct basename of the entries, and the file of a
\* basename that a single entry has holds the lines of that entry.
OneLabelFilePerBasename ==
    (call = "gen_labels" /\ pc = "returned") =>
        /\ DOMAIN files = LabelFileNames
        /\ \A i \in 1..Len(listing) :
               OnlyBasename(i) =>
                   files[splitext(listing[i])[1] \o TXT] = LabelRows(listing[i]).rows

\* gen_labels has returned over three entries of which two share their
\* basename: two files, the one of b.xml with the line of its known class.
SharedBasenameWritten ==
    /\ call = "gen_labels"
    /\ pc = "returned"
    /\ Len(listing) = 3
    /\ \E i \in 1..3 : ~OnlyBasename(i)
    /\ \E i \in 1..3 : OnlyBasename(i) /\ Len(files[OutFileName(listing[i])]) = 1
    /\ Cardinality(DOMAIN files) = 2

====
